---- MODULE Spec2Model ----
(***************************************************************************)
(* Model of the ANPR event ingestion pipeline of snowops-anpr-service:     *)
(* the HTTP ingestion handlers, ANPRService.ProcessIncomingEvent and the   *)
(* repository calls it makes against the relational store.                 *)
(*                                                                         *)
(* Conventions                                                             *)
(*  - a Go string that the code inspects character by character (plates,   *)
(*    camera ids, directions) is a sequence of one-character strings;      *)
(*    other strings are opaque TLA+ strings with "" for the empty string;  *)
(*  - a Go pointer / SQL nullable column is Nil (<<>>) or Some(v) (<<v>>); *)
(*  - time is counted in minutes, 0 is the zero time.Time;                 *)
(*  - a fill percentage is a whole number of percent, a body volume is in  *)
(*    tenths of a cubic metre and a derived volume in thousandths of a     *)
(*    cubic metre, so (pct / 100) * body is exactly pct * body10;          *)
(*  - uuid.New() of request r is r itself (unique per request).            *)
(***************************************************************************)
EXTENDS Integers, Sequences, FiniteSets, TLC

VARIABLES
    plates,     \* table anpr_plates
    events,     \* table anpr_events
    photos,     \* table anpr_event_photos
    vehicles,   \* external table vehicles (read only)
    polygons,   \* external table polygons (read only)
    now,        \* wall clock, time.Now()
    pc,         \* position of every request inside handler / service
    call,       \* arguments of the ProcessIncomingEvent call of a request
    loc,        \* local variables of the ProcessIncomingEvent call
    res,        \* result of ProcessIncomingEvent and the HTTP answer
    ctxDone,    \* request context cancelled
    admin,      \* the deletion request in progress and its answer
    cleanup,    \* the background cleanup goroutine of main
    pure        \* a call of a function or query on its own: argument and result

vars == <<plates, events, photos, vehicles, polygons, now, pc, call, loc, res, ctxDone,
          admin, cleanup, pure>>
dbVars == <<plates, events, photos>>
\* everything an ingestion call leaves alone
extVars == <<vehicles, polygons, now, admin, cleanup, pure>>
reqVars == <<pc, call, loc, res, ctxDone>>

----------------------------------------------------------------------------
(* Bounds *)

MaxSeqReq == 2      \* requests handled one after the other
MaxConcReq == 2     \* requests handled concurrently

MaxRetReq == 1      \* requests handled while events are being deleted

MaxOf(S) == CHOOSE x \in S : \A y \in S : y <= x
Req == 1 .. MaxOf({MaxSeqReq, MaxConcReq, MaxRetReq})

MaxDays == 2        \* days the clock may advance
MaxMinutes == 1     \* single minutes the clock may advance within a day
MaxCleanupDays == 4 \* days the clock may advance while the cleanup task runs
MaxPlateLen == 3    \* characters of a plate string given to NormalizePlate
MaxStored == 120    \* events in the store that GET /api/v1/events reads
MaxInfoLen == 3     \* characters of a brand or model given to formatVehicleInfo

(* Program constants *)
Window == 5         \* 5*time.Minute, the dedup window
StartTime == 10     \* the clock value of the modelled runs
Day == 1440         \* one day of AddDate(0, 0, -days), in minutes
Retention == 3      \* CleanupOldEvents(ctx, 3)
FirstRunDelay == 1  \* time.Sleep(1 * time.Minute)
TickPeriod == 360   \* time.NewTicker(6 * time.Hour)

----------------------------------------------------------------------------
(* Nullable values *)

Nil == <<>>
Some(v) == <<v>>

(* strings package *)

UpperLetters == <<"A","B","C","D","E","F","G","H","I","J","K","L","M",
                  "N","O","P","Q","R","S","T","U","V","W","X","Y","Z">>
LowerLetters == <<"a","b","c","d","e","f","g","h","i","j","k","l","m",
                  "n","o","p","q","r","s","t","u","v","w","x","y","z">>
Digits == {"0","1","2","3","4","5","6","7","8","9"}

IsUpper(c) == \E i \in 1..26 : UpperLetters[i] = c
IsLower(c) == \E i \in 1..26 : LowerLetters[i] = c
ToUpperChar(c) == IF IsLower(c) THEN UpperLetters[CHOOSE i \in 1..26 : LowerLetters[i] = c] ELSE c
ToLowerChar(c) == IF IsUpper(c) THEN LowerLetters[CHOOSE i \in 1..26 : UpperLetters[i] = c] ELSE c

\* unicode.IsSpace restricted to the characters a TLA+ string can hold
IsSpace(c) == c \in {" ", "\t", "\n", "\r", "\f"}

ToUpper(s) == [i \in 1..Len(s) |-> ToUpperChar(s[i])]
ToLower(s) == [i \in 1..Len(s) |-> ToLowerChar(s[i])]

TrimSpace(s) ==
    LET keep == {i \in 1..Len(s) : ~IsSpace(s[i])}
    IN  IF keep = {} THEN <<>>
        ELSE SubSeq(s, CHOOSE i \in keep : \A j \in keep : i <= j,
                       CHOOSE i \in keep : \A j \in keep : j <= i)

\* strings.ReplaceAll(s, old, "") for a one-character old
RemoveAll(s, old) == SelectSeq(s, LAMBDA c : c # old)

\* NormalizePlate without the removal of hyphens
NormalizePlateKeepingHyphens(raw) == ToUpper(RemoveAll(TrimSpace(raw), " "))

\* utils.NormalizePlate
NormalizePlate(raw) == ToUpper(RemoveAll(RemoveAll(TrimSpace(raw), " "), "-"))

\* SQL function normalize_plate_number: UPPER(REGEXP_REPLACE(t, '[^A-Z0-9]', '', 'g'))
normalize_plate_number(plate_text) ==
    ToUpper(SelectSeq(plate_text, LAMBDA c : IsUpper(c) \/ c \in Digits))

----------------------------------------------------------------------------
(* The external tables the service only reads *)

PlateA1 == <<"A","1">>
PlateB2 == <<"B","2">>
PlateC3 == <<"C","3">>
PlateD4 == <<"D","4">>
PlateZ9 == <<"Z","9">>

\* rows of table vehicles: one active fully described truck, one active row
\* without appearance data and without capacity, one inactive row, one active
\* row with a negative capacity
VehiclesTable == {
    [plate_number |-> PlateA1, is_active |-> TRUE,  brand |-> "Volvo", model |-> "FH",
     color |-> "red", year |-> 2020, body_volume_m3 |-> 170, contractor_id |-> Some("org1")],
    [plate_number |-> PlateB2, is_active |-> TRUE,  brand |-> "", model |-> "",
     color |-> "", year |-> 0, body_volume_m3 |-> 0, contractor_id |-> Nil],
    [plate_number |-> PlateC3, is_active |-> FALSE, brand |-> "MAN", model |-> "TGS",
     color |-> "blue", year |-> 2019, body_volume_m3 |-> 200, contractor_id |-> Some("org1")],
    [plate_number |-> PlateD4, is_active |-> TRUE,  brand |-> "Kamaz", model |-> "",
     color |-> "", year |-> 2015, body_volume_m3 |-> -5, contractor_id |-> Some("org2")] }

CamOne == <<"c","1">>
CamTwo == <<"c","2">>
CamYakor == <<"Y","a","k","o","r">>
CamSolnechny == <<"S","o","l","n","e","c","h","n","y">>

\* cameraAliasToPolygonName, with the polygon names transliterated
cameraAliasToPolygonName ==
    (<<"y","a","k","o","r">> :> <<"Y","a","k","o","r","'">>) @@
    (<<"s","o","l","n","e","c","h","n","y">> :> <<"S","o","l","n","e","c","h","n","y","j">>)

PolygonsTable == { [id |-> "pg1", name |-> <<"Y","a","k","o","r","'">>] }

\* config.Camera.HTTPHost, the camera id the Hikvision handler falls back to
CameraHTTPHost == <<"h","o","s","t">>

----------------------------------------------------------------------------
(* Directions *)

DirEmpty == <<>>
DirUnknown == <<"u","n","k","n","o","w","n">>
DirUnknownCaps == <<"U","n","k","n","o","w","n">>
DirExit == <<"e","x","i","t">>
DirExitCaps == <<"E","X","I","T">>
DirEntry == <<"e","n","t","r","y">>

----------------------------------------------------------------------------
(* anpr.EventPayload as the handlers decode it from the wire.  RawPayload   *)
(* is Nil (nil map) or Some(m), m recording what the map holds under the    *)
(* key "snow_volume_percentage" (Nil: no float64 under that key).           *)

BasePayload ==
    [Plate |-> PlateA1, CameraID |-> CamOne, EventTime |-> 10, Direction |-> DirEntry,
     Brand |-> "", Model |-> "", Color |-> "",
     SnowVolumePercentage |-> Nil, SnowVolumeM3 |-> Nil, RawPayload |-> Nil]

ZeroTime == 0

NoCall == [endpoint |-> "none", payload |-> BasePayload, photoURLs |-> <<>>, atCall |-> {}]
NoLoc == [normalized |-> <<>>, plateID |-> 0, vehicleData |-> Nil, event |-> Nil, polygonID |-> Nil]
NoRes == [kind |-> "none", msg |-> "", status |-> 0, body |-> ""]
NoAdmin == [pc |-> "idle", op |-> "none", confirm |-> Nil, days |-> 0, status |-> 0, count |-> 0]
\* failed remembers that some run of the task has failed
NoCleanup == [pc |-> "sleep", err |-> FALSE, failed |-> FALSE,
              nextTick |-> StartTime + TickPeriod]

NoPure == [op |-> "none", arg |-> <<>>, out |-> <<>>]

Init ==
    /\ pure = NoPure
    /\ plates = {}
    /\ events = {}
    /\ photos = {}
    /\ vehicles = VehiclesTable
    /\ polygons = PolygonsTable
    /\ now = StartTime
    /\ pc = [r \in Req |-> "idle"]
    /\ call = [r \in Req |-> NoCall]
    /\ loc = [r \in Req |-> NoLoc]
    /\ res = [r \in Req |-> NoRes]
    /\ ctxDone = [r \in Req |-> FALSE]
    /\ admin = NoAdmin
    /\ cleanup = NoCleanup

----------------------------------------------------------------------------
(* Pure parts of ProcessIncomingEvent and of the repository *)

\* ValidateInput with the camera id checked before the plate
ValidateInputCameraFirst(payload) ==
    IF payload.CameraID = <<>> THEN "camera_id is required"
    ELSE IF payload.Plate = <<>> THEN "plate is required"
    ELSE IF payload.EventTime = ZeroTime THEN "event_time is required"
    ELSE IF NormalizePlate(payload.Plate) = <<>> THEN "plate cannot be empty after normalization"
    ELSE ""

\* the precondition checks, in the order of the code; "" when all pass
ValidateInput(payload) ==
    IF payload.Plate = <<>> THEN "plate is required"
    ELSE IF payload.CameraID = <<>> THEN "camera_id is required"
    ELSE IF payload.EventTime = ZeroTime THEN "event_time is required"
    ELSE IF NormalizePlate(payload.Plate) = <<>> THEN "plate cannot be empty after normalization"
    ELSE ""

\* ExistsRecentEvent looking back only: stored events later than eventTime
\* are not counted
ExistsRecentEventLookingBack(evts, normalizedPlate, cameraID, eventTime, window) ==
    \E e \in evts :
        /\ e.normalized_plate = normalizedPlate
        /\ e.camera_id = cameraID
        /\ eventTime - window <= e.event_time
        /\ e.event_time <= eventTime

\* ExistsRecentEvent with the bounds of the window excluded
ExistsRecentEventExclusive(evts, normalizedPlate, cameraID, eventTime, window) ==
    \E e \in evts :
        /\ e.normalized_plate = normalizedPlate
        /\ e.camera_id = cameraID
        /\ eventTime - window < e.event_time
        /\ e.event_time < eventTime + window

\* WHERE normalized_plate = ? AND camera_id = ? AND event_time BETWEEN ? AND ?; count > 0
ExistsRecentEvent(evts, normalizedPlate, cameraID, eventTime, window) ==
    \E e \in evts :
        /\ e.normalized_plate = normalizedPlate
        /\ e.camera_id = cameraID
        /\ eventTime - window <= e.event_time
        /\ e.event_time <= eventTime + window

\* MatchingVehicles without the is_active condition
MatchingVehiclesAnyState(vs, normalizedPlate) ==
    {v \in vs : normalize_plate_number(v.plate_number) = normalizedPlate}

\* WHERE is_active = true AND normalize_plate_number(plate_number) = ?
MatchingVehicles(vs, normalizedPlate) ==
    {v \in vs : v.is_active /\ normalize_plate_number(v.plate_number) = normalizedPlate}

\* MergeAppearance with the camera value winning when it is present
MergeAppearanceCameraFirst(cameraValue, registryValue) ==
    IF cameraValue # "" THEN cameraValue ELSE registryValue

\* if vehicleData.X != "" { payload.Vehicle.X = vehicleData.X }
MergeAppearance(cameraValue, registryValue) ==
    IF registryValue # "" THEN registryValue ELSE cameraValue

\* DefaultDirection defaulting the empty direction only
DefaultDirectionEmptyOnly(direction) ==
    LET dir == ToLower(direction)
    IN  IF dir = <<>> THEN DirEntry ELSE dir

\* dir := strings.ToLower(payload.Direction); "" and "unknown" become "entry"
DefaultDirection(direction) ==
    LET dir == ToLower(direction)
    IN  IF dir = <<>> \/ dir = DirUnknown THEN DirEntry ELSE dir

\* the fill percentage of the event: the payload field, else a float64 in
\* RawPayload, else 0.0
SnowPercentage(payload) ==
    IF payload.SnowVolumePercentage = Nil /\ payload.RawPayload # Nil
    THEN IF payload.RawPayload[1].snow_volume_percentage # Nil
         THEN payload.RawPayload[1].snow_volume_percentage
         ELSE Some(0)
    ELSE IF payload.SnowVolumePercentage # Nil
    THEN payload.SnowVolumePercentage
    ELSE Some(0)

\* DerivedVolume with the percentage divided as an integer
DerivedVolumeIntegerDivision(percentage, bodyVolumeM3) ==
    (percentage \div 100) * bodyVolumeM3

\* (*event.SnowVolumePercentage / 100.0) * vehicleData.BodyVolumeM3
DerivedVolume(percentage, bodyVolumeM3) == percentage * bodyVolumeM3

\* lines 180-305 of ProcessIncomingEvent for a found vehicle: the payload
\* with registry data merged in, the direction defaulted, and the snow fields
BuildEvent(payload, vehicleData, plateID, eventID, normalized) ==
    LET merged == [payload EXCEPT
                     !.Brand = MergeAppearance(payload.Brand, vehicleData.brand),
                     !.Model = MergeAppearance(payload.Model, vehicleData.model),
                     !.Color = MergeAppearance(payload.Color, vehicleData.color),
                     !.RawPayload = IF payload.RawPayload = Nil
                                    THEN Some([snow_volume_percentage |-> Nil])
                                    ELSE payload.RawPayload,
                     !.Direction = DefaultDirection(payload.Direction)]
        pct == SnowPercentage(merged)
    IN  [ID |-> eventID, PlateID |-> plateID, NormalizedPlate |-> normalized,
         Plate |-> merged.Plate, CameraID |-> merged.CameraID,
         EventTime |-> merged.EventTime, Direction |-> merged.Direction,
         Brand |-> merged.Brand, Model |-> merged.Model, Color |-> merged.Color,
         SnowVolumePercentage |-> pct,
         \* event := &anpr.Event{EventPayload: payload} copies payload.SnowVolumeM3;
         \* it is overwritten only when a volume is computed
         SnowVolumeM3 |-> IF pct # Nil /\ vehicleData.body_volume_m3 > 0
                          THEN Some(DerivedVolume(pct[1], vehicleData.body_volume_m3))
                          ELSE merged.SnowVolumeM3]

\* if event.X != "" { dbEvent.X = &event.X }, for an opaque string
NullIfEmpty(s) == IF s = "" THEN Nil ELSE Some(s)

\* the same for a string held as a sequence of characters
NullIfEmptySeq(s) == IF s = <<>> THEN Nil ELSE Some(s)

\* the row CreateANPREvent inserts
EventRow(event, contractorID, polygonID, createdAt) ==
    [id |-> event.ID, plate_id |-> Some(event.PlateID), camera_id |-> event.CameraID,
     polygon_id |-> polygonID, raw_plate |-> event.Plate,
     normalized_plate |-> event.NormalizedPlate, event_time |-> event.EventTime,
     contractor_id |-> contractorID, created_at |-> createdAt,
     direction |-> NullIfEmptySeq(event.Direction),
     vehicle_color |-> NullIfEmpty(event.Color),
     vehicle_brand |-> NullIfEmpty(event.Brand),
     vehicle_model |-> NullIfEmpty(event.Model),
     snow_volume_percentage |-> event.SnowVolumePercentage,
     snow_volume_m3 |-> event.SnowVolumeM3]

\* the rows CreateEventPhotos inserts: DisplayOrder is the index in photoURLs
PhotoRows(eventID, photoURLs) ==
    {[event_id |-> eventID, photo_url |-> photoURLs[i], display_order |-> i - 1]
        : i \in 1..Len(photoURLs)}

\* ResultAfterPhotos with a photo failure failing the call
ResultAfterPhotosStrict(photosFailed) == IF photosFailed THEN "error" ELSE "ok"

\* the result of ProcessIncomingEvent once CreateANPREvent has succeeded,
\* whether or not CreateEventPhotos failed
ResultAfterPhotos(photosFailed) == "ok"

\* alias := strings.ToLower(strings.TrimSpace(cameraID)) and the alias table
PolygonNameOf(cameraID) ==
    LET alias == ToLower(TrimSpace(cameraID))
    IN  IF alias # <<>> /\ alias \in DOMAIN cameraAliasToPolygonName
        THEN Some(cameraAliasToPolygonName[alias]) ELSE Nil

\* the status the ingestion handlers answer a ProcessIncomingEvent result with
StatusOf(endpoint, kind) ==
    IF kind = "ok" THEN 201
    ELSE IF kind = "ErrInvalidInput" THEN 400
    ELSE IF kind = "ErrDuplicateEvent" /\ endpoint # "hikvision" THEN 409
    ELSE IF kind = "ErrVehicleNotWhitelisted" THEN 403
    ELSE 500

\* the body of the answer: err.Error() for the mapped kinds, else the fixed text
BodyOf(endpoint, kind, msg) ==
    IF kind = "ok" THEN "ok"
    ELSE IF StatusOf(endpoint, kind) = 500 THEN "internal error"
    ELSE msg

\* firstNonEmpty(values...): the first value that is not blank, trimmed
firstNonEmpty(values) ==
    LET filled == {i \in 1..Len(values) : TrimSpace(values[i]) # <<>>}
    IN  IF filled = {} THEN <<>>
        ELSE TrimSpace(values[CHOOSE i \in filled : \A j \in filled : i <= j])

----------------------------------------------------------------------------
(* The ingestion handlers up to their call of ProcessIncomingEvent.  A      *)
(* request r may start when every request before it has started; with       *)
(* sequential set, only when no other request is in flight.                 *)

CanStart(r, maxReq, sequential) ==
    /\ r <= maxReq
    /\ pc[r] = "idle"
    /\ \A q \in Req : q < r => pc[q] # "idle"
    /\ sequential => \A q \in Req : pc[q] \in {"idle", "done"}

BeginCall(r, endpoint, payload, photoURLs) ==
    /\ pc' = [pc EXCEPT ![r] = "validate"]
    /\ call' = [call EXCEPT ![r] = [endpoint |-> endpoint, payload |-> payload,
                                    photoURLs |-> photoURLs, atCall |-> events]]
    /\ UNCHANGED <<dbVars, extVars, loc, res, ctxDone>>

\* if payload.EventTime.IsZero() { payload.EventTime = time.Now() }
DefaultEventTime(payload) ==
    [payload EXCEPT !.EventTime = IF @ = ZeroTime THEN now ELSE @]

\* POST /api/v1/anpr/events with a JSON body
createANPREventJSON(r, inputs, maxReq, sequential) ==
    /\ CanStart(r, maxReq, sequential)
    /\ \E p \in inputs : BeginCall(r, "json", DefaultEventTime(p), <<>>)

\* POST /api/v1/anpr/events with a multipart body: the snow percentage is
\* defaulted to 0.0, RawPayload is made non-nil, the uploaded photos are passed on
createANPREventMultipart(r, inputs, urlChoices, maxReq, sequential) ==
    /\ CanStart(r, maxReq, sequential)
    /\ \E p \in inputs, urls \in urlChoices :
         BeginCall(r, "multipart",
                   DefaultEventTime(
                     [p EXCEPT !.SnowVolumePercentage = IF @ = Nil THEN Some(0) ELSE @,
                               !.RawPayload = IF @ = Nil
                                              THEN Some([snow_volume_percentage |-> Nil])
                                              ELSE @]),
                   urls)

\* the values of the camera_id query parameter of a Hikvision request
QueryCameraIDs == {<<>>, <<"q", "1">>}

\* the Hikvision handler with the query parameter as the only fallback
HikvisionCameraIDQueryOnly(cameraID, query) ==
    IF cameraID = <<>> THEN query ELSE cameraID

\* payload.CameraID of the Hikvision handler: the camera id of the XML, else
\* the camera_id query parameter, else the configured CAMERA_HTTP_HOST
HikvisionCameraID(cameraID, query) ==
    IF cameraID = <<>>
    THEN IF query = <<>> THEN CameraHTTPHost ELSE query
    ELSE cameraID

\* POST /api/v1/anpr/hikvision: ToEventPayload trims the plate and the camera
\* id (firstNonEmpty) and carries no snow fields
createHikvisionEvent(r, inputs, maxReq, sequential) ==
    /\ CanStart(r, maxReq, sequential)
    /\ \E p \in inputs, query \in QueryCameraIDs :
         BeginCall(r, "hikvision",
                   DefaultEventTime(
                     [p EXCEPT !.Plate = TrimSpace(@),
                               !.CameraID = HikvisionCameraID(firstNonEmpty(<<@>>), query),
                               !.SnowVolumePercentage = Nil,
                               !.SnowVolumeM3 = Nil,
                               !.RawPayload = Some([snow_volume_percentage |-> Nil])]),
                   <<>>)

\* the objects in the bucket: every URL the multipart handler passes on is
\* that of an object uploadEventPhoto has put there before the service call
UploadedObjects ==
    UNION {{[event_id |-> r, photo_url |-> call[r].photoURLs[i]] :
               i \in 1..Len(call[r].photoURLs)} :
           r \in {q \in Req : call[q].endpoint = "multipart"}}

\* ProcessIncomingEvent called by any other caller, arguments as given
ProcessIncomingEvent(r, inputs, urlChoices, maxReq, sequential) ==
    /\ CanStart(r, maxReq, sequential)
    /\ \E p \in inputs, urls \in urlChoices : BeginCall(r, "direct", p, urls)

----------------------------------------------------------------------------
(* ProcessIncomingEvent, one action per blocking repository call.  A call   *)
(* on a cancelled context fails; failChoices are the outcomes of the store  *)
(* itself (TRUE: the statement fails).                                      *)

Return(r, kind, msg) ==
    /\ res' = [res EXCEPT ![r] = [kind |-> kind, msg |-> msg, status |-> 0, body |-> ""]]
    /\ pc' = [pc EXCEPT ![r] = IF call[r].endpoint = "direct" THEN "done" ELSE "respond"]

\* lines 124-137
Validate(r) ==
    /\ pc[r] = "validate"
    /\ LET msg == ValidateInput(call[r].payload)
       IN  IF msg # ""
           THEN Return(r, "ErrInvalidInput", msg) /\ UNCHANGED loc
           ELSE /\ pc' = [pc EXCEPT ![r] = "dedup"]
                /\ loc' = [loc EXCEPT ![r].normalized = NormalizePlate(call[r].payload.Plate)]
                /\ UNCHANGED res
    /\ UNCHANGED <<dbVars, extVars, call, ctxDone>>

\* lines 139-150
DedupCheck(r, failChoices) ==
    /\ pc[r] = "dedup"
    /\ \E fail \in failChoices :
         IF fail \/ ctxDone[r]
         THEN Return(r, "error", "failed to check duplicate event")
         ELSE IF ExistsRecentEvent(events, loc[r].normalized, call[r].payload.CameraID,
                                   call[r].payload.EventTime, Window)
         THEN Return(r, "ErrDuplicateEvent", "duplicate recent event")
         ELSE pc' = [pc EXCEPT ![r] = "plate_select"] /\ UNCHANGED res
    /\ UNCHANGED <<dbVars, extVars, call, loc, ctxDone>>

\* GetOrCreatePlate as an upsert: a later sighting rewrites the row's number
GetOrCreatePlateSelectRewriting(r, failChoices) ==
    /\ pc[r] = "plate_select"
    /\ \E fail \in failChoices :
         IF fail \/ ctxDone[r]
         THEN Return(r, "error", "failed to get or create plate") /\ UNCHANGED <<loc, plates>>
         ELSE LET found == {p \in plates : p.normalized = loc[r].normalized}
              IN  IF found # {}
                  THEN /\ pc' = [pc EXCEPT ![r] = "vehicle"]
                       /\ loc' = [loc EXCEPT ![r].plateID = (CHOOSE p \in found : TRUE).id]
                       /\ plates' = (plates \ found) \cup
                             {[p EXCEPT !.number = call[r].payload.Plate] : p \in found}
                       /\ UNCHANGED res
                  ELSE /\ pc' = [pc EXCEPT ![r] = "plate_insert"]
                       /\ UNCHANGED <<loc, res, plates>>
    /\ UNCHANGED <<events, photos, extVars, call, ctxDone>>

\* GetOrCreatePlate, the SELECT
GetOrCreatePlateSelect(r, failChoices) ==
    /\ pc[r] = "plate_select"
    /\ \E fail \in failChoices :
         IF fail \/ ctxDone[r]
         THEN Return(r, "error", "failed to get or create plate") /\ UNCHANGED loc
         ELSE LET found == {p \in plates : p.normalized = loc[r].normalized}
              IN  IF found # {}
                  THEN /\ pc' = [pc EXCEPT ![r] = "vehicle"]
                       /\ loc' = [loc EXCEPT ![r].plateID = (CHOOSE p \in found : TRUE).id]
                       /\ UNCHANGED res
                  ELSE /\ pc' = [pc EXCEPT ![r] = "plate_insert"]
                       /\ UNCHANGED <<loc, res>>
    /\ UNCHANGED <<dbVars, extVars, call, ctxDone>>

\* GetOrCreatePlate creating a row for a plate of the registry only
GetOrCreatePlateInsertWhitelisted(r, failChoices) ==
    /\ pc[r] = "plate_insert"
    /\ \E fail \in failChoices :
         IF fail \/ ctxDone[r]
         THEN Return(r, "error", "failed to get or create plate")
              /\ UNCHANGED <<plates, loc>>
         ELSE IF \E p \in plates : p.normalized = loc[r].normalized
         THEN Return(r, "error", "failed to create plate: duplicate key")
              /\ UNCHANGED <<plates, loc>>
         ELSE /\ plates' = IF MatchingVehicles(vehicles, loc[r].normalized) = {}
                           THEN plates
                           ELSE plates \cup {[id |-> r, number |-> call[r].payload.Plate,
                                              normalized |-> loc[r].normalized]}
              /\ loc' = [loc EXCEPT ![r].plateID = r]
              /\ pc' = [pc EXCEPT ![r] = "vehicle"]
              /\ UNCHANGED res
    /\ UNCHANGED <<events, photos, extVars, call, ctxDone>>

\* GetOrCreatePlate, the INSERT under the unique index on normalized
GetOrCreatePlateInsert(r, failChoices) ==
    /\ pc[r] = "plate_insert"
    /\ \E fail \in failChoices :
         IF fail \/ ctxDone[r]
         THEN Return(r, "error", "failed to get or create plate")
              /\ UNCHANGED <<plates, loc>>
         ELSE IF \E p \in plates : p.normalized = loc[r].normalized
         THEN Return(r, "error", "failed to create plate: duplicate key")
              /\ UNCHANGED <<plates, loc>>
         ELSE /\ plates' = plates \cup {[id |-> r, number |-> call[r].payload.Plate,
                                         normalized |-> loc[r].normalized]}
              /\ loc' = [loc EXCEPT ![r].plateID = r]
              /\ pc' = [pc EXCEPT ![r] = "vehicle"]
              /\ UNCHANGED res
    /\ UNCHANGED <<events, photos, extVars, call, ctxDone>>

\* lines 168-322: the registry lookup, the whitelist gate and the enrichment
GetVehicleByPlate(r, failChoices) ==
    /\ pc[r] = "vehicle"
    /\ \E fail \in failChoices :
         IF fail \/ ctxDone[r]
         THEN Return(r, "error", "failed to get vehicle data") /\ UNCHANGED loc
         ELSE LET found == MatchingVehicles(vehicles, loc[r].normalized)
              IN  IF found = {}
                  THEN Return(r, "ErrVehicleNotWhitelisted", "vehicle not found in vehicles table")
                       /\ UNCHANGED loc
                  ELSE \E v \in found :
                         /\ loc' = [loc EXCEPT ![r].vehicleData = Some(v),
                                               ![r].event = Some(BuildEvent(call[r].payload, v,
                                                   loc[r].plateID, r, loc[r].normalized))]
                         /\ pc' = [pc EXCEPT ![r] = "polygon"]
                         /\ UNCHANGED res
    /\ UNCHANGED <<dbVars, extVars, call, ctxDone>>

\* ResolvePolygonIDByCameraID with its error returned to the caller
ResolvePolygonIDByCameraIDFatal(r, failChoices) ==
    /\ pc[r] = "polygon"
    /\ LET name == PolygonNameOf(call[r].payload.CameraID)
       IN  \E fail \in failChoices :
             IF name # Nil /\ (fail \/ ctxDone[r])
             THEN Return(r, "error", "failed to resolve polygon") /\ UNCHANGED loc
             ELSE /\ loc' = [loc EXCEPT ![r].polygonID =
                        IF name = Nil THEN Nil
                        ELSE LET found == {g \in polygons : ToLower(g.name) = ToLower(name[1])}
                             IN  IF found = {} THEN Nil
                                 ELSE Some((CHOOSE g \in found : TRUE).id)]
                  /\ pc' = [pc EXCEPT ![r] = "create_event"]
                  /\ UNCHANGED res
    /\ UNCHANGED <<dbVars, extVars, call, ctxDone>>

\* lines 324-330: an error is logged and the polygon id stays nil
ResolvePolygonIDByCameraID(r, failChoices) ==
    /\ pc[r] = "polygon"
    /\ LET name == PolygonNameOf(call[r].payload.CameraID)
       IN  \E fail \in failChoices :
             loc' = [loc EXCEPT ![r].polygonID =
                        IF name = Nil \/ fail \/ ctxDone[r] THEN Nil
                        ELSE LET found == {g \in polygons : ToLower(g.name) = ToLower(name[1])}
                             IN  IF found = {} THEN Nil
                                 ELSE Some((CHOOSE g \in found : TRUE).id)]
    /\ pc' = [pc EXCEPT ![r] = "create_event"]
    /\ UNCHANGED <<dbVars, extVars, call, res, ctxDone>>

\* lines 332-340
CreateANPREvent(r, failChoices) ==
    /\ pc[r] = "create_event"
    /\ \E fail \in failChoices :
         IF fail \/ ctxDone[r]
         THEN Return(r, "error", "failed to create ANPR event") /\ UNCHANGED events
         ELSE /\ events' = events \cup
                    {EventRow(loc[r].event[1], loc[r].vehicleData[1].contractor_id,
                              loc[r].polygonID, now)}
              /\ pc' = [pc EXCEPT ![r] = "photos"]
              /\ UNCHANGED res
    /\ UNCHANGED <<plates, photos, extVars, call, loc, ctxDone>>

\* anpr_event_photos.event_id references anpr_events(id)
EventPhotoReference(evts, eventID) == \E e \in evts : e.id = eventID

\* a photo table without the cascade
CascadePhotosKept(phs, removed) == phs

\* ... ON DELETE CASCADE: the photo rows of removed event rows go with them
CascadePhotos(phs, removed) == {ph \in phs : ph.event_id \notin {e.id : e \in removed}}

\* lines 342-390: the photo rows need their event row (foreign key); a
\* failure is logged and the call still returns its ProcessResult
CreateEventPhotos(r, failChoices) ==
    /\ pc[r] = "photos"
    /\ \E fail \in failChoices :
         LET failed == fail \/ ctxDone[r] \/ ~EventPhotoReference(events, r)
         IN  /\ photos' = IF Len(call[r].photoURLs) > 0 /\ ~failed
                          THEN photos \cup PhotoRows(r, call[r].photoURLs)
                          ELSE photos
             /\ Return(r, ResultAfterPhotos(Len(call[r].photoURLs) > 0 /\ failed), "")
    /\ UNCHANGED <<plates, events, extVars, call, loc, ctxDone>>

\* the handler's answer
Respond(r) ==
    /\ pc[r] = "respond"
    /\ res' = [res EXCEPT ![r].status = StatusOf(call[r].endpoint, res[r].kind),
                          ![r].body = BodyOf(call[r].endpoint, res[r].kind, res[r].msg)]
    /\ pc' = [pc EXCEPT ![r] = "done"]
    /\ UNCHANGED <<dbVars, extVars, call, loc, ctxDone>>

\* the client goes away: the request context is cancelled
CancelContext(r) ==
    /\ pc[r] \in {"validate", "dedup", "plate_select", "plate_insert", "vehicle",
                  "polygon", "create_event", "photos"}
    /\ ~ctxDone[r]
    /\ ctxDone' = [ctxDone EXCEPT ![r] = TRUE]
    /\ UNCHANGED <<dbVars, extVars, pc, call, loc, res>>

----------------------------------------------------------------------------
(* Inputs of the scenarios *)

PlateA1Spelled == <<"a","-","1">>
PlateBlank == <<" ","-">>

----------------------------------------------------------------------------
(* The clock, the deletion endpoints and the repository calls behind them *)

\* the last clock value of a run of maxDays days; it stands for all later times
Horizon(maxDays) == StartTime + maxDays * Day + MaxMinutes

\* time passes, by a minute or by a day
AdvanceTime(d, maxDays) ==
    /\ d \in {1, Day}
    /\ now + d <= Horizon(maxDays)
    /\ d = 1 => (now - StartTime) % Day < MaxMinutes
    /\ now' = now + d
    /\ UNCHANGED <<dbVars, vehicles, polygons, admin, cleanup, reqVars, pure>>

\* WHERE created_at < cutoffTime, with the cutoff reached or passed included
OldEventsInclusive(evts, days, nowTime) ==
    {e \in evts : e.created_at <= nowTime - days * Day}

\* cutoffTime := time.Now().AddDate(0, 0, -days); WHERE created_at < cutoffTime
OldEvents(evts, days, nowTime) ==
    {e \in evts : e.created_at < nowTime - days * Day}

\* the handler of DELETE /anpr/events/old up to the service call:
\* Days int `binding:"required,min=1"`
deleteOldEvents(bodyChoices) ==
    /\ admin.pc = "idle"
    /\ \E body \in bodyChoices :
         admin' = IF body = Nil \/ body[1] < 1
                  THEN [pc |-> "idle", op |-> "old", confirm |-> Nil,
                        days |-> 0, status |-> 400, count |-> 0]
                  ELSE [pc |-> "delete_old", op |-> "old", confirm |-> Nil,
                        days |-> body[1], status |-> 0, count |-> 0]
    /\ UNCHANGED <<dbVars, vehicles, polygons, now, cleanup, reqVars, pure>>

\* ANPRService.DeleteOldEvents, ANPRRepository.DeleteOldEvents and the answer
DeleteOldEvents(failChoices) ==
    /\ admin.pc = "delete_old"
    /\ \E fail \in failChoices :
         IF admin.days < 1
         THEN /\ admin' = [admin EXCEPT !.pc = "idle", !.status = 400, !.count = 0]
              /\ UNCHANGED <<events, photos>>
         ELSE IF fail
         THEN /\ admin' = [admin EXCEPT !.pc = "idle", !.status = 500, !.count = 0]
              /\ UNCHANGED <<events, photos>>
         ELSE LET removed == OldEvents(events, admin.days, now)
              IN  /\ events' = events \ removed
                  /\ photos' = CascadePhotos(photos, removed)
                  /\ admin' = [admin EXCEPT !.pc = "idle", !.status = 200,
                                            !.count = Cardinality(removed)]
    /\ UNCHANGED <<plates, vehicles, polygons, now, cleanup, reqVars, pure>>

\* Confirmed for any body that binds, whatever its confirm field
ConfirmedAnyBody(body) == body # Nil

\* Confirm bool `binding:"required"`; err != nil || !req.Confirm
Confirmed(body) == body # Nil /\ body[1]

\* the handler of DELETE /anpr/events/all up to the service call
deleteAllEvents(bodyChoices) ==
    /\ admin.pc = "idle"
    /\ \E body \in bodyChoices :
         admin' = IF Confirmed(body)
                  THEN [pc |-> "delete_all", op |-> "all", confirm |-> body,
                        days |-> 0, status |-> 0, count |-> 0]
                  ELSE [pc |-> "idle", op |-> "all", confirm |-> body,
                        days |-> 0, status |-> 400, count |-> 0]
    /\ UNCHANGED <<dbVars, vehicles, polygons, now, cleanup, reqVars, pure>>

\* ANPRService.DeleteAllEvents, ANPRRepository.DeleteAllEvents and the answer
DeleteAllEvents(failChoices) ==
    /\ admin.pc = "delete_all"
    /\ \E fail \in failChoices :
         IF fail
         THEN /\ admin' = [admin EXCEPT !.pc = "idle", !.status = 500, !.count = 0]
              /\ UNCHANGED <<events, photos>>
         ELSE /\ events' = {}
              /\ photos' = CascadePhotos(photos, events)
              /\ admin' = [admin EXCEPT !.pc = "idle", !.status = 200,
                                        !.count = Cardinality(events)]
    /\ UNCHANGED <<plates, vehicles, polygons, now, cleanup, reqVars, pure>>

\* repeated sightings: two spellings of one plate and another plate, two
\* cameras, event times 1, 5, 6 and 11/12 minutes apart
DedupInputs ==
    {[BasePayload EXCEPT !.Plate = pl, !.CameraID = c, !.EventTime = t] :
        pl \in {PlateA1, PlateA1Spelled, PlateB2}, c \in {CamOne, CamTwo}, t \in {4, 10, 15, 16}}

\* missing and blank required fields
ValidationInputs ==
    {[BasePayload EXCEPT !.Plate = pl, !.CameraID = c, !.EventTime = t] :
        pl \in {<<>>, PlateBlank, <<" ">>, PlateA1}, c \in {<<>>, CamOne}, t \in {ZeroTime, 10}}

\* plates with an active, an inactive and no registry row
WhitelistInputs ==
    {[BasePayload EXCEPT !.Plate = pl] : pl \in {PlateA1, PlateB2, PlateC3, PlateD4, PlateZ9}}

\* camera-supplied appearance against the registry rows
AppearanceInputs ==
    {[BasePayload EXCEPT !.Plate = pl, !.Brand = b, !.Model = m, !.Color = c] :
        pl \in {PlateA1, PlateB2, PlateD4},
        b \in {"", "CamBrand"}, m \in {"", "CamModel"}, c \in {"", "CamColor"}}

DirectionInputs ==
    {[BasePayload EXCEPT !.Direction = d] :
        d \in {DirEmpty, DirUnknown, DirUnknownCaps, DirExit, DirExitCaps, DirEntry}}

\* fill percentage, caller-supplied snow_volume_m3 and raw_payload against
\* registry rows of capacity 17.0, 0 and -0.5
SnowInputs ==
    {[BasePayload EXCEPT !.Plate = pl, !.SnowVolumePercentage = pct,
                         !.SnowVolumeM3 = m3, !.RawPayload = raw] :
        pl \in {PlateA1, PlateB2, PlateD4},
        pct \in {Nil, Some(0), Some(50)},
        m3 \in {Nil, Some(99000)},
        raw \in {Nil, Some([snow_volume_percentage |-> Nil]),
                 Some([snow_volume_percentage |-> Some(30)])}}

CameraInputs ==
    {[BasePayload EXCEPT !.CameraID = c] : c \in {CamYakor, CamSolnechny, CamTwo}}

SingleInputs ==
    ValidationInputs \cup WhitelistInputs \cup AppearanceInputs \cup DirectionInputs
        \cup SnowInputs \cup CameraInputs

\* a valid whitelisted event, an unregistered plate, a missing plate
HttpInputs ==
    {[BasePayload EXCEPT !.Plate = pl] : pl \in {PlateA1, PlateZ9, <<>>}}

\* two spellings of a plate not yet in the dictionary, 6 minutes apart or not
ConcInputs ==
    {[BasePayload EXCEPT !.Plate = pl, !.EventTime = t] :
        pl \in {PlateA1, PlateA1Spelled, PlateB2}, t \in {10, 16}}

\* one sighting as each adapter receives it: vehicles with and without
\* capacity, two cameras, with and without the snow fields
AdapterInputs ==
    {[BasePayload EXCEPT !.Plate = pl, !.CameraID = c,
                         !.SnowVolumePercentage = pct, !.SnowVolumeM3 = m3] :
        pl \in {PlateA1, PlateB2}, c \in {CamOne, CamTwo},
        pct \in {Nil, Some(0), Some(50)}, m3 \in {Nil, Some(99000)}}

\* the URL uploadEventPhoto returns for the attachment of index i (at i + 1):
\* its object key ends in -photo-{i}
AttachmentURLs == <<"u0", "u1">>

\* the index in the object key behind a URL
AttachmentIndex(url) ==
    CHOOSE i \in 0..(Len(AttachmentURLs) - 1) : AttachmentURLs[i + 1] = url

\* the attachments of a multipart request and the outcome of each upload
\* (TRUE: uploaded; FALSE: rejected by uploadEventPhoto or failed in storage)
UploadPatterns == UNION {[1..n -> BOOLEAN] : n \in 0..Len(AttachmentURLs)}

\* the upload loop of createANPREvent from attachment i on: a failed upload
\* is logged and skipped, the URL of a successful one is appended
RECURSIVE UploadLoop(_, _)
UploadLoop(pattern, i) ==
    IF i > Len(pattern)
    THEN <<>>
    ELSE (IF pattern[i] THEN <<AttachmentURLs[i]>> ELSE <<>>) \o UploadLoop(pattern, i + 1)

\* the photoURLs a request can carry
PhotoURLChoices == {UploadLoop(pattern, 1) : pattern \in UploadPatterns}

\* a whitelisted plate, with and without a photo
RetentionInputs == {[BasePayload EXCEPT !.Plate = PlateA1]}
RetentionURLChoices == {<<>>, <<"u0">>}

\* the row of an event of plate D4 ingested earlier (uuid 0)
StoredEvent ==
    LET v == CHOOSE v \in VehiclesTable : v.plate_number = PlateD4
    IN  EventRow(BuildEvent([BasePayload EXCEPT !.Plate = PlateD4], v, 0, 0, PlateD4),
                 v.contractor_id, Nil, StartTime)

\* bodies of DELETE /anpr/events/old: no days, days 0, 1 and 2
DaysChoices == {Nil, Some(0), Some(1), Some(2)}

\* bodies of DELETE /anpr/events/all: no confirm, confirm false, confirm true
ConfirmChoices == {Nil, Some(FALSE), Some(TRUE)}

NoFailure == {FALSE}
AnyFailure == BOOLEAN

----------------------------------------------------------------------------
(* Plate normalization called on its own *)

PlateChars == {"a", "A", "1", "-", " ", "\t", "K", "Z"}
PlateStrings == UNION {[1..n -> PlateChars] : n \in 0..MaxPlateLen}

\* utils.NormalizePlate(raw)
CallNormalizePlate ==
    /\ pure.op = "input"
    /\ pure' = [pure EXCEPT !.op = "NormalizePlate", !.out = NormalizePlate(pure.arg)]
    /\ UNCHANGED <<dbVars, vehicles, polygons, now, admin, cleanup, reqVars>>

\* GetVehicleByPlate(NormalizePlate(p)) for a sighting p of an active vehicle
\* whose plate_number in the registry is written exactly as p
CallGetVehicleByPlate ==
    /\ pure.op = "input"
    /\ LET v == CHOOSE v \in VehiclesTable : v.plate_number = PlateA1
       IN  pure' = [pure EXCEPT !.op = "GetVehicleByPlate",
                      !.out = MatchingVehicles({[v EXCEPT !.plate_number = pure.arg]},
                                               NormalizePlate(pure.arg))]
    /\ UNCHANGED <<dbVars, vehicles, polygons, now, admin, cleanup, reqVars>>

----------------------------------------------------------------------------
(* Brand and model of hikvisionEvent.ToEventPayload called on their own *)

\* the values an XML text field of the camera takes here
FieldStrings == {<<>>, <<" ">>, <<"0">>, <<"5">>, <<"V">>}

\* the fields of the XML that decide brand and model
HikvisionFields ==
    [Brand : FieldStrings, ANPRBrand : FieldStrings, VehicleLogoRecog : FieldStrings,
     Model : FieldStrings, VehileModel : FieldStrings]

BrandIDPrefix == <<"b", "r", "a", "n", "d", "_", "i", "d", ":">>
ModelIDPrefix == <<"m", "o", "d", "e", "l", "_", "i", "d", ":">>

\* vehicleBrand of ToEventPayload
HikvisionBrand(e) ==
    LET vehicleBrand == firstNonEmpty(<<e.Brand, e.ANPRBrand>>)
    IN  IF vehicleBrand = <<>> /\ e.VehicleLogoRecog # <<>> /\ e.VehicleLogoRecog # <<"0">>
        THEN BrandIDPrefix \o e.VehicleLogoRecog
        ELSE vehicleBrand

\* vehicleModel of ToEventPayload: vehileModel is also the second argument of
\* firstNonEmpty
HikvisionModel(e) ==
    LET vehicleModel == firstNonEmpty(<<e.Model, e.VehileModel>>)
    IN  IF vehicleModel = <<>> \/ vehicleModel = <<"0">>
        THEN IF e.VehileModel # <<>> /\ e.VehileModel # <<"0">>
             THEN ModelIDPrefix \o e.VehileModel
             ELSE <<>>
        ELSE vehicleModel

\* hikEvent.ToEventPayload(xmlPayload), brand and model of the payload
CallToEventPayload ==
    /\ pure.op = "xml"
    /\ pure' = [pure EXCEPT !.op = "ToEventPayload",
                            !.out = [Brand |-> HikvisionBrand(pure.arg),
                                     Model |-> HikvisionModel(pure.arg)]]
    /\ UNCHANGED <<dbVars, vehicles, polygons, now, admin, cleanup, reqVars>>

----------------------------------------------------------------------------
(* GET /api/v1/events: listEvents, ANPRService.FindEvents and                *)
(* ANPRRepository.FindEvents, with the plate and direction parameters absent *)

\* an integer query parameter: absent or empty, not a number, or a number
QueryInts(values) ==
    {[given |-> FALSE, parsed |-> FALSE, value |-> 0],
     [given |-> TRUE, parsed |-> FALSE, value |-> 0]}
        \cup {[given |-> TRUE, parsed |-> TRUE, value |-> v] : v \in values}

LimitValues == {-1, 0, 5, 50, 100, 101, 200}
OffsetValues == {-1, 0, 2, 110}

\* the from and to parameters: absent, malformed, or an RFC3339 time
QueryTimes == QueryInts({4, 9})

\* the store holds the events 1..n; the event time of event i
EventTimeOf(i) == ((i * 7) % 13) + 1
StoredTimes(n) == [i \in 1..n |-> EventTimeOf(i)]
StoredCounts == {0, 3, 60, MaxStored}

\* limit := 10; a given limit that parses and is positive replaces it
HandlerLimit(q) == IF q.given /\ q.parsed /\ q.value > 0 THEN q.value ELSE 10

\* offset := 0; a given offset that parses and is not negative replaces it
HandlerOffset(q) == IF q.given /\ q.parsed /\ q.value >= 0 THEN q.value ELSE 0

\* if limit <= 0 { limit = 50 }; if limit > 100 { limit = 100 }
ServiceLimit(limit) ==
    LET l == IF limit <= 0 THEN 50 ELSE limit
    IN  IF l > 100 THEN 100 ELSE l

\* ORDER BY event_time DESC, for the event times in vals
RECURSIVE OrderDesc(_, _)
OrderDesc(times, vals) ==
    IF vals = {} THEN <<>>
    ELSE LET m == MaxOf(vals)
         IN  SelectSeq(times, LAMBDA t : t = m) \o OrderDesc(times, vals \ {m})

\* ANPRRepository.FindEvents: the time filters, the order, LIMIT and OFFSET
RepoFindEvents(times, from, to, limit, offset) ==
    LET kept == SelectSeq(times, LAMBDA t : (from # Nil => t >= from[1])
                                               /\ (to # Nil => t <= to[1]))
        ordered == OrderDesc(kept, {kept[i] : i \in 1..Len(kept)})
        lim == IF limit > 0 THEN (IF limit > 100 THEN 100 ELSE limit) ELSE Len(ordered)
        off == IF offset > 0 THEN offset ELSE 0
        last == IF off + lim > Len(ordered) THEN Len(ordered) ELSE off + lim
    IN  SubSeq(ordered, off + 1, last)

\* the whole request: 400 for a malformed from or to, else the events found
listEvents ==
    /\ pure.op = "query"
    /\ LET q == pure.arg
           limit == HandlerLimit(q.limit)
           offset == HandlerOffset(q.offset)
           from == IF q.from.given THEN Some(q.from.value) ELSE Nil
           to == IF q.to.given THEN Some(q.to.value) ELSE Nil
       IN  pure' = [pure EXCEPT
                      !.op = "listEvents",
                      !.out = IF (q.from.given /\ ~q.from.parsed) \/ (q.to.given /\ ~q.to.parsed)
                              THEN [status |-> 400, events |-> <<>>]
                              ELSE [status |-> 200,
                                    events |-> RepoFindEvents(StoredTimes(q.stored), from, to,
                                                              ServiceLimit(limit),
                                                              IF offset < 0 THEN 0 ELSE offset)]]
    /\ UNCHANGED <<dbVars, vehicles, polygons, now, admin, cleanup, reqVars>>

----------------------------------------------------------------------------
(* GET /api/v1/reports and /reports/excel: the filters the handlers build,  *)
(* with the vehicle_id, plate and offset parameters absent                  *)

\* the principal of the request: none, two contractors, an akimat admin
Principals ==
    {Nil, Some([Role |-> "CONTRACTOR_ADMIN", OrgID |-> "org1"]),
     Some([Role |-> "CONTRACTOR_ADMIN", OrgID |-> "org2"]),
     Some([Role |-> "AKIMAT_ADMIN", OrgID |-> "org3"])}

\* Principal.IsContractor
IsContractor(principal) == principal.Role = "CONTRACTOR_ADMIN"

\* a uuid query parameter: absent or blank, malformed, or a uuid
QueryUUIDs(values) ==
    {[given |-> FALSE, parsed |-> FALSE, value |-> ""],
     [given |-> TRUE, parsed |-> FALSE, value |-> ""]}
        \cup {[given |-> TRUE, parsed |-> TRUE, value |-> v] : v \in values}

ContractorParams == QueryUUIDs({"org1", "org2"})
PolygonParams == QueryUUIDs({"pg1"})
ReportFromParams == QueryInts({StartTime - 91 * Day, 4})
ReportToParams == QueryInts({2, 9})
ReportLimitParams == QueryInts({5, 2000})

\* the access rule with the contractor_id of the query kept for everyone
AccessFiltersKeepingQuery(filters, principal) ==
    [filters EXCEPT !.OnlyAssigned = IsContractor(principal)]

\* if principal.IsContractor() { ContractorID = &principal.OrgID;
\* OnlyAssigned = true } else { OnlyAssigned = false }
AccessFilters(filters, principal) ==
    IF IsContractor(principal)
    THEN [filters EXCEPT !.ContractorID = Some(principal.OrgID), !.OnlyAssigned = TRUE]
    ELSE [filters EXCEPT !.OnlyAssigned = FALSE]

\* limit := 100; a positive limit of the query replaces it, capped at 1000
ReportLimit(q) ==
    IF q.given /\ q.parsed /\ q.value > 0
    THEN (IF q.value > 1000 THEN 1000 ELSE q.value)
    ELSE 100

\* getReports (endpoint "reports") and exportReportsExcel (endpoint "excel")
\* up to the service call: the status of an early answer, else the filters.
\* Time 0 is the zero time.
ReportRequest(endpoint, principal, q, nowTime) ==
    LET Bad(param) == param.given /\ ~param.parsed
        Reject(status) == [status |-> status, filters |-> Nil]
        fromTime == IF q.from.given THEN q.from.value ELSE ZeroTime
        toTime == IF q.to.given THEN q.to.value ELSE ZeroTime
        From == IF fromTime = ZeroTime /\ toTime = ZeroTime THEN nowTime - Day
                ELSE IF fromTime = ZeroTime THEN toTime - Day
                ELSE fromTime
        To == IF toTime = ZeroTime THEN nowTime ELSE toTime
        parsed == [ContractorID |-> IF q.contractor_id.given
                                    THEN Some(q.contractor_id.value) ELSE Nil,
                   PolygonID |-> IF q.polygon_id.given THEN Some(q.polygon_id.value) ELSE Nil,
                   From |-> From, To |-> To, OnlyAssigned |-> FALSE,
                   Limit |-> 0, Offset |-> 0, MaxRows |-> 0]
        granted == AccessFilters(parsed, principal[1])
    IN  IF principal = Nil THEN Reject(401)
        ELSE IF Bad(q.contractor_id) \/ Bad(q.polygon_id) \/ Bad(q.from) \/ Bad(q.to)
        THEN Reject(400)
        ELSE IF From # ZeroTime /\ To # ZeroTime /\ To < From THEN Reject(400)
        ELSE IF endpoint = "excel" /\ From # ZeroTime /\ To # ZeroTime /\ To - From > 90 * Day
        THEN Reject(400)
        ELSE [status |-> 200,
              filters |-> Some(IF endpoint = "excel"
                               THEN [granted EXCEPT !.MaxRows = 100000]
                               ELSE [granted EXCEPT !.Limit = ReportLimit(q.limit)])]

\* two requests of one principal that differ in their contractor_id only
CallReports ==
    /\ pure.op = "reports"
    /\ LET a == pure.arg
       IN  pure' = [pure EXCEPT
                      !.op = "ReportRequest",
                      !.out = <<ReportRequest(a.endpoint, a.principal, a.first, now),
                                ReportRequest(a.endpoint, a.principal, a.second, now)>>]
    /\ UNCHANGED <<dbVars, vehicles, polygons, now, admin, cleanup, reqVars>>

----------------------------------------------------------------------------
(* formatVehicleInfo of the report export, called on its own *)

InfoChars == {"a", "b", " ", "\t"}
InfoStrings == UNION {[1..n -> InfoChars] : n \in 0..MaxInfoLen}

\* a *string: nil or a string
InfoPointers == {Nil} \cup {Some(s) : s \in InfoStrings}

\* strings.Fields(s): the maximal runs of characters that are not white space
RECURSIVE Fields(_)
Fields(s) ==
    IF s = <<>> THEN <<>>
    ELSE IF IsSpace(s[1]) THEN Fields(Tail(s))
    ELSE LET spaces == {i \in 1..Len(s) : IsSpace(s[i])}
             n == IF spaces = {} THEN Len(s) + 1
                  ELSE CHOOSE i \in spaces : \A j \in spaces : i <= j
         IN  <<SubSeq(s, 1, n - 1)>> \o Fields(SubSeq(s, n, Len(s)))

\* strings.Join(parts, sep)
RECURSIVE Join(_, _)
Join(parts, sep) ==
    IF parts = <<>> THEN <<>>
    ELSE IF Len(parts) = 1 THEN parts[1]
    ELSE parts[1] \o sep \o Join(Tail(parts), sep)

\* formatVehicleInfo without the pass over strings.Fields
formatVehicleInfoJoinOnly(brand, model) ==
    LET Part(v) == IF v # Nil /\ TrimSpace(v[1]) # <<>> THEN <<TrimSpace(v[1])>> ELSE <<>>
    IN  Join(Part(brand) \o Part(model), <<" ">>)

\* formatVehicleInfo(brand, model)
formatVehicleInfo(brand, model) ==
    LET Part(v) == IF v # Nil /\ TrimSpace(v[1]) # <<>> THEN <<TrimSpace(v[1])>> ELSE <<>>
        result == Join(Part(brand) \o Part(model), <<" ">>)
    IN  Join(Fields(result), <<" ">>)

CallFormatVehicleInfo ==
    /\ pure.op = "info"
    /\ pure' = [pure EXCEPT !.op = "formatVehicleInfo",
                            !.out = formatVehicleInfo(pure.arg.brand, pure.arg.model)]
    /\ UNCHANGED <<dbVars, vehicles, polygons, now, admin, cleanup, reqVars>>

----------------------------------------------------------------------------
(* The background cleanup goroutine of main *)

\* time.Sleep(1 * time.Minute) returns
CleanupWake ==
    /\ cleanup.pc = "sleep"
    /\ now >= StartTime + FirstRunDelay
    /\ cleanup' = [cleanup EXCEPT !.pc = "run"]
    /\ UNCHANGED <<dbVars, vehicles, polygons, now, admin, reqVars, pure>>

\* ANPRService.CleanupOldEvents(ctx, 3): the deletion, or its error
CleanupOldEvents(failChoices) ==
    /\ cleanup.pc = "run"
    /\ \E fail \in failChoices :
         IF fail
         THEN /\ cleanup' = [cleanup EXCEPT !.pc = "log", !.err = TRUE, !.failed = TRUE]
              /\ UNCHANGED <<events, photos>>
         ELSE LET removed == OldEvents(events, Retention, now)
              IN  /\ events' = events \ removed
                  /\ photos' = CascadePhotos(photos, removed)
                  /\ cleanup' = [cleanup EXCEPT !.pc = "log", !.err = FALSE]
    /\ UNCHANGED <<plates, vehicles, polygons, now, admin, reqVars, pure>>

\* the goroutine returning when a run has failed
CleanupLogResultStopping ==
    /\ cleanup.pc = "log"
    /\ cleanup' = [cleanup EXCEPT !.pc = IF cleanup.err THEN "stopped" ELSE "wait"]
    /\ UNCHANGED <<dbVars, vehicles, polygons, now, admin, reqVars, pure>>

\* the result is logged and the goroutine waits for the next tick
CleanupLogResult ==
    /\ cleanup.pc = "log"
    /\ cleanup' = [cleanup EXCEPT !.pc = "wait"]
    /\ UNCHANGED <<dbVars, vehicles, polygons, now, admin, reqVars, pure>>

\* for range ticker.C: a tick of the 6-hour ticker is received
CleanupTick(maxDays) ==
    /\ cleanup.pc = "wait"
    /\ now >= cleanup.nextTick
    /\ cleanup' = [cleanup EXCEPT !.pc = "run",
                      !.nextTick = IF cleanup.nextTick + TickPeriod > Horizon(maxDays)
                                   THEN Horizon(maxDays)
                                   ELSE cleanup.nextTick + TickPeriod]
    /\ UNCHANGED <<dbVars, vehicles, polygons, now, admin, reqVars, pure>>

----------------------------------------------------------------------------
(* Specifications *)

ServiceStep(r, failChoices) ==
    \/ Validate(r)
    \/ DedupCheck(r, failChoices)
    \/ GetOrCreatePlateSelect(r, failChoices)
    \/ GetOrCreatePlateInsert(r, failChoices)
    \/ GetVehicleByPlate(r, failChoices)
    \/ ResolvePolygonIDByCameraID(r, failChoices)
    \/ CreateANPREvent(r, failChoices)
    \/ CreateEventPhotos(r, failChoices)
    \/ Respond(r)

\* one request against an empty event store, every endpoint, the store may
\* fail and the context may be cancelled at any point
Next ==
    \E r \in Req :
        \/ createANPREventJSON(r, SingleInputs, 1, TRUE)
        \/ createANPREventMultipart(r, SingleInputs, PhotoURLChoices, 1, TRUE)
        \/ createHikvisionEvent(r, SingleInputs, 1, TRUE)
        \/ ProcessIncomingEvent(r, SingleInputs, PhotoURLChoices, 1, TRUE)
        \/ ServiceStep(r, AnyFailure)
        \/ CancelContext(r)

Spec == Init /\ [][Next]_vars

\* requests processed one after the other, the store never failing
NextDedup ==
    \E r \in Req :
        \/ createANPREventJSON(r, DedupInputs, MaxSeqReq, TRUE)
        \/ ServiceStep(r, NoFailure)

SpecDedup == Init /\ [][NextDedup]_vars

\* requests processed one after the other on the three endpoints, the store
\* may fail
NextHttp ==
    \E r \in Req :
        \/ createANPREventJSON(r, HttpInputs, MaxSeqReq, TRUE)
        \/ createANPREventMultipart(r, HttpInputs, {<<>>}, MaxSeqReq, TRUE)
        \/ createHikvisionEvent(r, HttpInputs, MaxSeqReq, TRUE)
        \/ ServiceStep(r, AnyFailure)

SpecHttp == Init /\ [][NextHttp]_vars

\* the same sighting sent through the JSON and the Hikvision endpoint, one
\* request after the other, the store never failing
NextAdapters ==
    \E r \in Req :
        \/ createANPREventJSON(r, AdapterInputs, MaxSeqReq, TRUE)
        \/ createHikvisionEvent(r, AdapterInputs, MaxSeqReq, TRUE)
        \/ ServiceStep(r, NoFailure)

SpecAdapters == Init /\ [][NextAdapters]_vars

\* requests processed concurrently, the store never failing
NextConc ==
    \E r \in Req :
        \/ createANPREventJSON(r, ConcInputs, MaxConcReq, FALSE)
        \/ ServiceStep(r, NoFailure)

SpecConc == Init /\ [][NextConc]_vars

\* ingestion one request after the other while time passes and the deletion
\* endpoints are called, the deletions may fail
NextRetention ==
    \/ \E r \in Req :
          \/ createANPREventMultipart(r, RetentionInputs, RetentionURLChoices, MaxRetReq, TRUE)
          \/ ServiceStep(r, NoFailure)
    \/ \E d \in {1, Day} : AdvanceTime(d, MaxDays)
    \/ deleteOldEvents(DaysChoices)
    \/ DeleteOldEvents(AnyFailure)
    \/ deleteAllEvents(ConfirmChoices)
    \/ DeleteAllEvents(AnyFailure)

\* a store that already holds one event with a photo, ingested at StartTime
InitRetention ==
    /\ pure = NoPure
    /\ plates = {[id |-> 0, number |-> PlateD4, normalized |-> PlateD4]}
    /\ events = {StoredEvent}
    /\ photos = PhotoRows(0, <<"p0">>)
    /\ vehicles = VehiclesTable
    /\ polygons = PolygonsTable
    /\ now = StartTime
    /\ pc = [r \in Req |-> "idle"]
    /\ call = [r \in Req |-> NoCall]
    /\ loc = [r \in Req |-> NoLoc]
    /\ res = [r \in Req |-> NoRes]
    /\ ctxDone = [r \in Req |-> FALSE]
    /\ admin = NoAdmin
    /\ cleanup = NoCleanup

SpecRetention == InitRetention /\ [][NextRetention]_vars

\* NormalizePlate and the registry lookup on every plate string of up to
\* MaxPlateLen characters
InitNormalize ==
    /\ pure \in {[op |-> "input", arg |-> s, out |-> <<>>] : s \in PlateStrings}
    /\ plates = {}
    /\ events = {}
    /\ photos = {}
    /\ vehicles = VehiclesTable
    /\ polygons = PolygonsTable
    /\ now = StartTime
    /\ pc = [r \in Req |-> "idle"]
    /\ call = [r \in Req |-> NoCall]
    /\ loc = [r \in Req |-> NoLoc]
    /\ res = [r \in Req |-> NoRes]
    /\ ctxDone = [r \in Req |-> FALSE]
    /\ admin = NoAdmin
    /\ cleanup = NoCleanup

NextNormalize ==
    \/ CallNormalizePlate
    \/ CallGetVehicleByPlate

SpecNormalize == InitNormalize /\ [][NextNormalize]_vars

\* GET /api/v1/events for every combination of limit, offset, from and to
\* against stores of several sizes
InitListEvents ==
    /\ pure \in {[op |-> "query",
                  arg |-> [limit |-> l, offset |-> o, from |-> f, to |-> t, stored |-> n],
                  out |-> <<>>] :
                    l \in QueryInts(LimitValues), o \in QueryInts(OffsetValues),
                    f \in QueryTimes, t \in QueryTimes, n \in StoredCounts}
    /\ plates = {}
    /\ events = {}
    /\ photos = {}
    /\ vehicles = VehiclesTable
    /\ polygons = PolygonsTable
    /\ now = StartTime
    /\ pc = [r \in Req |-> "idle"]
    /\ call = [r \in Req |-> NoCall]
    /\ loc = [r \in Req |-> NoLoc]
    /\ res = [r \in Req |-> NoRes]
    /\ ctxDone = [r \in Req |-> FALSE]
    /\ admin = NoAdmin
    /\ cleanup = NoCleanup

NextListEvents == listEvents

SpecListEvents == InitListEvents /\ [][NextListEvents]_vars

\* pairs of report requests that differ in their contractor_id only
InitReports ==
    /\ pure \in {[op |-> "reports",
                  arg |-> [endpoint |-> ep, principal |-> pr,
                           first |-> [contractor_id |-> c1, polygon_id |-> pg,
                                      from |-> f, to |-> t, limit |-> l],
                           second |-> [contractor_id |-> c2, polygon_id |-> pg,
                                       from |-> f, to |-> t, limit |-> l]],
                  out |-> <<>>] :
                    ep \in {"reports", "excel"}, pr \in Principals,
                    c1 \in ContractorParams, c2 \in ContractorParams,
                    pg \in PolygonParams, f \in ReportFromParams, t \in ReportToParams,
                    l \in ReportLimitParams}
    /\ plates = {}
    /\ events = {}
    /\ photos = {}
    /\ vehicles = VehiclesTable
    /\ polygons = PolygonsTable
    /\ now = StartTime
    /\ pc = [r \in Req |-> "idle"]
    /\ call = [r \in Req |-> NoCall]
    /\ loc = [r \in Req |-> NoLoc]
    /\ res = [r \in Req |-> NoRes]
    /\ ctxDone = [r \in Req |-> FALSE]
    /\ admin = NoAdmin
    /\ cleanup = NoCleanup

NextReports == CallReports

SpecReports == InitReports /\ [][NextReports]_vars

\* formatVehicleInfo applied to every pair of brand and model pointers
InitVehicleInfo ==
    /\ pure \in {[op |-> "info", arg |-> [brand |-> b, model |-> m], out |-> <<>>] :
                    b \in InfoPointers, m \in InfoPointers}
    /\ plates = {}
    /\ events = {}
    /\ photos = {}
    /\ vehicles = VehiclesTable
    /\ polygons = PolygonsTable
    /\ now = StartTime
    /\ pc = [r \in Req |-> "idle"]
    /\ call = [r \in Req |-> NoCall]
    /\ loc = [r \in Req |-> NoLoc]
    /\ res = [r \in Req |-> NoRes]
    /\ ctxDone = [r \in Req |-> FALSE]
    /\ admin = NoAdmin
    /\ cleanup = NoCleanup

NextVehicleInfo == CallFormatVehicleInfo

SpecVehicleInfo == InitVehicleInfo /\ [][NextVehicleInfo]_vars

\* ToEventPayload applied to every combination of the brand and model fields
InitHikvisionFields ==
    /\ pure \in {[op |-> "xml", arg |-> e, out |-> <<>>] : e \in HikvisionFields}
    /\ plates = {}
    /\ events = {}
    /\ photos = {}
    /\ vehicles = VehiclesTable
    /\ polygons = PolygonsTable
    /\ now = StartTime
    /\ pc = [r \in Req |-> "idle"]
    /\ call = [r \in Req |-> NoCall]
    /\ loc = [r \in Req |-> NoLoc]
    /\ res = [r \in Req |-> NoRes]
    /\ ctxDone = [r \in Req |-> FALSE]
    /\ admin = NoAdmin
    /\ cleanup = NoCleanup

NextHikvisionFields == CallToEventPayload

SpecHikvisionFields == InitHikvisionFields /\ [][NextHikvisionFields]_vars

\* the cleanup goroutine beside one JSON ingestion request (event 1) and
\* the event already stored (event 0) while time passes; a run may fail
CleanupStep ==
    \/ CleanupWake
    \/ CleanupOldEvents(AnyFailure)
    \/ CleanupLogResult
    \/ CleanupTick(MaxCleanupDays)

ClockStep == \E d \in {1, Day} : AdvanceTime(d, MaxCleanupDays)

NextCleanup ==
    \/ \E r \in Req :
          \/ createANPREventJSON(r, RetentionInputs, 1, TRUE)
          \/ ServiceStep(r, NoFailure)
    \/ ClockStep
    \/ CleanupStep

\* the goroutine is scheduled whenever it can run, and time passes
SpecCleanup ==
    InitRetention /\ [][NextCleanup]_vars /\ WF_vars(CleanupStep) /\ WF_vars(ClockStep)

----------------------------------------------------------------------------
(* Properties *)

\* C1: when a call finds, at the time it is made, a stored event of the same
\* camera id and the same normalized plate whose event time is at most 5
\* minutes from its own, it returns ErrDuplicateEvent and creates no event
\* row; when it finds none and the plate is whitelisted, it is stored as an
\* event row of its own (requests processed one after the other).
C1_DedupWindow ==
    \A r \in Req :
        pc[r] = "done" =>
            LET p == call[r].payload
                near == \E e \in call[r].atCall :
                            /\ e.camera_id = p.CameraID
                            /\ e.normalized_plate = NormalizePlate(p.Plate)
                            /\ e.event_time - p.EventTime <= Window
                            /\ p.EventTime - e.event_time <= Window
                whitelisted == \E v \in vehicles :
                            v.is_active /\ NormalizePlate(v.plate_number) = NormalizePlate(p.Plate)
                mine == {e \in events : e.id = r}
            IN  /\ near => res[r].kind = "ErrDuplicateEvent" /\ mine = {}
                /\ (~near /\ whitelisted) =>
                      /\ res[r].kind = "ok"
                      /\ Cardinality(mine) = 1
                      /\ mine \cap call[r].atCall = {}
                      /\ \A e \in mine : /\ e.camera_id = p.CameraID
                                         /\ e.normalized_plate = NormalizePlate(p.Plate)
                                         /\ e.event_time = p.EventTime

\* C1 witness: a second sighting, spelled differently and exactly 5 minutes
\* after a stored one at the same camera, was rejected as a duplicate
C1_Witness ==
    \E r1, r2 \in Req :
        /\ pc[r1] = "done" /\ pc[r2] = "done"
        /\ res[r1].kind = "ok" /\ res[r2].kind = "ErrDuplicateEvent"
        /\ call[r1].payload.Plate # call[r2].payload.Plate
        /\ call[r2].payload.EventTime - call[r1].payload.EventTime = Window
        /\ \E e \in call[r2].atCall : e.id = r1

C3_ValidationOrder ==
    \A r \in Req :
        LET p == call[r].payload
            expected == IF p.Plate = <<>> THEN "plate is required"
                        ELSE IF p.CameraID = <<>> THEN "camera_id is required"
                        ELSE IF p.EventTime = ZeroTime THEN "event_time is required"
                        ELSE "plate cannot be empty after normalization"
            invalid == \/ p.Plate = <<>> \/ p.CameraID = <<>> \/ p.EventTime = ZeroTime
                       \/ NormalizePlate(p.Plate) = <<>>
        IN  (pc[r] # "idle" /\ invalid) =>
                /\ pc[r] \in {"validate", "respond", "done"}
                /\ pc[r] # "validate" => res[r].kind = "ErrInvalidInput" /\ res[r].msg = expected
                /\ plates = {} /\ events = {} /\ photos = {}

\* C3 witness: a call lacking plate, camera id and event time was answered
\* for the plate
C3_Witness ==
    \E r \in Req :
        /\ pc[r] = "done"
        /\ call[r].payload.Plate = <<>>
        /\ call[r].payload.CameraID = <<>>
        /\ call[r].payload.EventTime = ZeroTime
        /\ res[r].msg = "plate is required"


\* C4: a stored event whose matched registry row has a positive body volume
\* carries a fill percentage and a derived volume equal to
\* (percentage / 100) * body volume for that stored percentage (in
\* thousandths of a cubic metre: percentage * body volume in tenths).
C4_DerivedVolume ==
    \A e \in events : \A v \in vehicles :
        (/\ v.is_active
         /\ normalize_plate_number(v.plate_number) = e.normalized_plate
         /\ v.body_volume_m3 > 0)
        => /\ e.snow_volume_percentage # Nil
           /\ e.snow_volume_m3 = Some(e.snow_volume_percentage[1] * v.body_volume_m3)

\* C4 witness: capacity 17.0 and percentage 50 stored as 8.5 although the
\* caller sent a volume of its own
C4_Witness ==
    \E e \in events :
        /\ e.normalized_plate = PlateA1
        /\ e.snow_volume_percentage = Some(50)
        /\ e.snow_volume_m3 = Some(8500)
        /\ call[e.id].payload.SnowVolumeM3 = Some(99000)

\* C5: a stored event whose matched registry row has a zero or negative body
\* volume has no derived volume, whatever the payload carried.
C5_NoVolumeWithoutCapacity ==
    \A e \in events : \A v \in vehicles :
        (/\ v.is_active
         /\ normalize_plate_number(v.plate_number) = e.normalized_plate
         /\ v.body_volume_m3 <= 0)
        => e.snow_volume_m3 = Nil

C7_DirectionDefault ==
    \A e \in events :
        LET d == call[e.id].payload.Direction
        IN  /\ e.direction # Nil
            /\ e.direction[1] # <<>>
            /\ e.direction[1] # DirUnknown
            /\ (d = <<>> \/ d = DirUnknown) => e.direction = Some(DirEntry)
            /\ d = DirExit => e.direction = Some(DirExit)

\* C7 witness: an event that came with direction "unknown" is stored as "entry"
C7_Witness ==
    \E e \in events :
        /\ call[e.id].payload.Direction = DirUnknown
        /\ e.direction = Some(DirEntry)

\* C8: once the event row of a call is in the store, every later step keeps
\* that row unchanged, and when the call returns it returns a ProcessResult
\* (no error), whether CreateEventPhotos failed or the context was cancelled.
C8_CommitIsFinal ==
    [][\A r \in Req : \A e \in events :
          e.id = r => /\ e \in events'
                      /\ pc'[r] \in {"respond", "done"} => res'[r].kind = "ok"]_vars

\* C8 witness: the context was cancelled after the commit, the photo rows
\* were not written, and the call returned its result with the row in place
C8_Witness ==
    \E r \in Req :
        /\ pc[r] = "done"
        /\ ctxDone[r]
        /\ Len(call[r].photoURLs) > 0
        /\ ~(\E ph \in photos : ph.event_id = r)
        /\ \E e \in events : e.id = r
        /\ res[r].kind = "ok"

\* C9: on every ingestion endpoint an answered call that ended in
\* ErrInvalidInput, ErrDuplicateEvent or ErrVehicleNotWhitelisted gets a status
\* that differs from the endpoint's status for the other two and from its
\* status for all other errors, and every other error gets the body
\* "internal error".
C9_DistinctStatuses ==
    \A r \in Req :
        (pc[r] = "done" /\ call[r].endpoint # "direct")
        => LET mapped == {"ErrInvalidInput", "ErrDuplicateEvent", "ErrVehicleNotWhitelisted"}
               ep == call[r].endpoint
           IN  /\ res[r].kind \in mapped
                    => /\ res[r].status # StatusOf(ep, "error")
                       /\ \A k \in mapped \ {res[r].kind} : res[r].status # StatusOf(ep, k)
               /\ res[r].kind = "error" => res[r].body = "internal error"

\* C10: for any interleaving of calls with the same normalized plate there is
\* one Plate row for it, and every call that went through GetOrCreatePlate
\* got that row's id and no error.
C10_AtomicGetOrCreate ==
    /\ \A p1, p2 \in plates : p1.normalized = p2.normalized => p1 = p2
    /\ \A r \in Req :
          (/\ pc[r] \in {"vehicle", "polygon", "create_event", "photos", "respond", "done"}
           /\ res[r].kind \notin {"ErrInvalidInput", "ErrDuplicateEvent"})
          => /\ res[r].kind # "error"
             /\ \E p \in plates : p.normalized = loc[r].normalized /\ p.id = loc[r].plateID

\* C11: no step changes or removes a Plate row once it exists, and there is
\* never more than one Plate row per normalized value: the row keeps the
\* spelling of the sighting that created it.
C11_PlateNeverUpdated ==
    [][/\ \A p \in plates : p \in plates'
       /\ \A p1, p2 \in plates' : p1.normalized = p2.normalized => p1 = p2
       /\ \A p \in plates' : p.number = call'[p.id].payload.Plate]_vars

\* C11 witness: a later sighting under another spelling got the id of the row
\* the first sighting created, and the row still carries the first spelling
C11_Witness ==
    \E r, q \in Req :
        /\ pc[r] = "done" /\ pc[q] = "done"
        /\ loc[q].plateID = r /\ q # r
        /\ call[q].payload.Plate # call[r].payload.Plate
        /\ \E p \in plates : p.id = r /\ p.number = call[r].payload.Plate

\* C12: a successful DeleteOldEvents(days) removes exactly the event rows
\* created more than days days before now: each of them is gone, every other
\* event row is still there unchanged, and the count it returns is the number
\* of rows removed.
C12_DeleteOldExact ==
    [][(admin.pc = "delete_old" /\ admin'.status = 200)
        => /\ \A e \in events : e \in events' <=> ~(now - e.created_at > admin.days * Day)
           /\ events' \subseteq events
           /\ admin'.count = Cardinality(events \ events')]_vars

\* C12 witness: with days = 1 the event stored a day and a minute ago was
\* removed and the one stored exactly a day ago was kept
C12_Witness ==
    /\ admin.pc = "idle" /\ admin.status = 200 /\ admin.days = 1 /\ admin.count = 1
    /\ StoredEvent \notin events
    /\ \E e \in events : e.created_at = now - Day

\* C13: every EventPhoto row references an event row that exists.
C13_NoOrphanPhotos ==
    \A ph \in photos : \E e \in events : e.id = ph.event_id

\* C13 witness: one deletion removed the stored event and the event of a
\* request that attached a photo, and no photo row is left
C13_Witness ==
    /\ admin.status = 200 /\ admin.count = 2
    /\ events = {} /\ photos = {}
    /\ \E r \in Req : pc[r] = "done" /\ res[r].kind = "ok" /\ Len(call[r].photoURLs) > 0

\* C14: a failed run of the cleanup task is always followed by another run,
\* and if runs succeed again and again, every event that has become more than
\* 3 days old is eventually deleted.
C14_CleanupKeepsRunning ==
    /\ [](cleanup.pc = "log" /\ cleanup.err => <>(cleanup.pc = "run"))
    /\ ([]<>(cleanup.pc = "log" /\ ~cleanup.err))
         => \A id \in {0, 1} :
               []((\E e \in events : e.id = id /\ now - e.created_at > Retention * Day)
                     => <>(~(\E e \in events : e.id = id)))

\* C14 witness: after a failed run, a later run has deleted the event that
\* was in the store from the start, once it was more than 3 days old
C14_Witness ==
    /\ cleanup.failed
    /\ cleanup.pc = "log" /\ ~cleanup.err
    /\ now - StoredEvent.created_at > Retention * Day
    /\ StoredEvent \notin events

\* C15 as claimed: inserting a hyphen, a space or a tab anywhere in a plate
\* string, or changing the case of one of its letters, does not change the
\* output of NormalizePlate; the output has no whitespace, no hyphen and no
\* lowercase letter; the empty string gives the empty string.
C15_NormalizeCanonical ==
    pure.op = "NormalizePlate"
    => LET s == pure.arg
           swap(c) == IF IsUpper(c) THEN ToLowerChar(c) ELSE ToUpperChar(c)
           insert(i, c) == SubSeq(s, 1, i) \o <<c>> \o SubSeq(s, i + 1, Len(s))
       IN  /\ \A i \in 0..Len(s), c \in {"-", " ", "\t"} :
                 NormalizePlate(insert(i, c)) = pure.out
           /\ \A i \in 1..Len(s) : NormalizePlate([s EXCEPT ![i] = swap(@)]) = pure.out
           /\ \A i \in 1..Len(pure.out) :
                 ~IsSpace(pure.out[i]) /\ pure.out[i] # "-" /\ ~IsLower(pure.out[i])
           /\ s = <<>> => pure.out = <<>>

\* C15 as amended: for a plate string whose only whitespace is the space
\* character, inserting a hyphen or a space anywhere, or changing the case of
\* one of its letters, does not change the output of NormalizePlate; the
\* output has no space, no hyphen and no lowercase letter; the empty string
\* gives the empty string.
C15_NormalizeSpaces ==
    (pure.op = "NormalizePlate" /\ \A i \in 1..Len(pure.arg) : pure.arg[i] # "\t")
    => LET s == pure.arg
           swap(c) == IF IsUpper(c) THEN ToLowerChar(c) ELSE ToUpperChar(c)
           insert(i, c) == SubSeq(s, 1, i) \o <<c>> \o SubSeq(s, i + 1, Len(s))
       IN  /\ \A i \in 0..Len(s), c \in {"-", " "} :
                 NormalizePlate(insert(i, c)) = pure.out
           /\ \A i \in 1..Len(s) : NormalizePlate([s EXCEPT ![i] = swap(@)]) = pure.out
           /\ \A i \in 1..Len(pure.out) :
                 pure.out[i] # " " /\ pure.out[i] # "-" /\ ~IsLower(pure.out[i])
           /\ s = <<>> => pure.out = <<>>

\* C15 witness: " a-" has been normalized to "A"
C15_Witness ==
    /\ pure.op = "NormalizePlate"
    /\ pure.arg = <<" ", "a", "-">>
    /\ pure.out = <<"A">>

\* C16: an active vehicle is found by a sighting of the very plate string it
\* is registered under, i.e. normalize_plate_number and NormalizePlate give
\* the same string for it.
C16_LookupByNormalizedForm ==
    pure.op = "GetVehicleByPlate"
    => /\ pure.out # {}
       /\ normalize_plate_number(pure.arg) = NormalizePlate(pure.arg)

\* C17: NormalizePlate removes a leading "KZ": when the plate string without
\* spaces and hyphens, in upper case, begins with "KZ", the output is the
\* rest of it.
C17_CountryPrefixRemoved ==
    pure.op = "NormalizePlate"
    => LET u == ToUpper(SelectSeq(pure.arg, LAMBDA c : ~IsSpace(c) /\ c # "-"))
       IN  (Len(u) >= 2 /\ u[1] = "K" /\ u[2] = "Z") => pure.out = SubSeq(u, 3, Len(u))

\* C19: in ToEventPayload, for brand and for model alike, a textual value wins
\* when present; with no textual value and an identifier code that is neither
\* empty nor "0" the field is "brand_id:<code>" / "model_id:<code>", never the
\* bare code; otherwise the field is empty
C19_TaggedPlaceholder ==
    pure.op = "ToEventPayload"
    => LET e == pure.arg
           textBrand == IF TrimSpace(e.Brand) # <<>> THEN TrimSpace(e.Brand)
                        ELSE TrimSpace(e.ANPRBrand)
           textModel == TrimSpace(e.Model)
           Coded(code) == code # <<>> /\ code # <<"0">>
       IN  /\ textBrand # <<>> => pure.out.Brand = textBrand
           /\ textBrand = <<>> /\ Coded(e.VehicleLogoRecog)
                => pure.out.Brand = BrandIDPrefix \o e.VehicleLogoRecog
           /\ textBrand = <<>> /\ ~Coded(e.VehicleLogoRecog) => pure.out.Brand = <<>>
           /\ textModel # <<>> /\ textModel # <<"0">> => pure.out.Model = textModel
           /\ textModel = <<>> /\ Coded(e.VehileModel)
                => pure.out.Model = ModelIDPrefix \o e.VehileModel
           /\ textModel = <<>> /\ ~Coded(e.VehileModel) => pure.out.Model = <<>>

\* C18: each of the two adapters (JSON/multipart and Hikvision XML) hands
\* ProcessIncomingEvent an event with a non-empty camera id, a configured
\* default standing in for a camera id the wire payload omits
C18_CameraIDPopulated ==
    \A r \in Req :
        call[r].endpoint \in {"json", "multipart", "hikvision"}
            => call[r].payload.CameraID # <<>>

\* C18 as amended: the Hikvision adapter always hands over a non-empty camera
\* id; a JSON or multipart request without a camera id is handed over as it
\* is, answered 400 and stores nothing
C18_HikvisionCameraIDPopulated ==
    \A r \in Req :
        /\ call[r].endpoint = "hikvision" => call[r].payload.CameraID # <<>>
        /\ (call[r].endpoint \in {"json", "multipart"} /\ call[r].payload.CameraID = <<>>)
             => /\ pc[r] \in {"validate", "respond", "done"}
                /\ pc[r] = "done" => res[r].kind = "ErrInvalidInput" /\ res[r].status = 400
                /\ events = call[r].atCall

\* C18 witness: a Hikvision event without camera id or query parameter was
\* stored under the configured host
C18_Witness ==
    \E r \in Req : \E e \in events :
        /\ pc[r] = "done"
        /\ call[r].endpoint = "hikvision"
        /\ res[r].kind = "ok"
        /\ e.id = r
        /\ e.camera_id = CameraHTTPHost

\* C20: an event stored through the JSON endpoint and one stored through the
\* Hikvision endpoint with the same plate, the same event time and the same
\* fill percentage have the same normalized plate and the same derived volume
C20_AdaptersAgree ==
    \A r1, r2 \in Req : \A e1, e2 \in events :
        (/\ call[r1].endpoint = "json" /\ e1.id = r1
         /\ call[r2].endpoint = "hikvision" /\ e2.id = r2
         /\ e1.raw_plate = e2.raw_plate
         /\ e1.event_time = e2.event_time
         /\ e1.snow_volume_percentage = e2.snow_volume_percentage)
        => /\ e1.normalized_plate = e2.normalized_plate
           /\ e1.snow_volume_m3 = e2.snow_volume_m3

\* C21: no outcome of site resolution (an error of the lookup, no alias for
\* the camera, no polygon of the aliased name) fails the request: the call
\* goes on to store the event, and the event is stored with a null polygon id
\* unless the alias of its camera names a polygon of the table
C21_SiteResolutionNonFatal ==
    /\ [][\A r \in Req :
            (pc[r] = "polygon" /\ pc'[r] # "polygon")
                => /\ pc'[r] = "create_event"
                   /\ res'[r] = res[r]
                   /\ loc'[r].polygonID \in {Nil, Some("pg1")}]_vars
    /\ [](\A e \in events :
            LET name == PolygonNameOf(e.camera_id)
            IN  \/ e.polygon_id = Nil
                \/ /\ name # Nil
                   /\ \E g \in polygons : ToLower(g.name) = ToLower(name[1])
                                          /\ e.polygon_id = Some(g.id))

\* C21 witness: the lookup of a camera whose alias has a polygon failed, and
\* the event was stored with a null polygon id and the request succeeded
C21_Witness ==
    \E r \in Req : \E e \in events :
        /\ pc[r] = "done"
        /\ res[r].kind = "ok"
        /\ e.id = r
        /\ e.camera_id = CamYakor
        /\ e.polygon_id = Nil

\* C22: the deleteAllEvents handler calls DeleteAllEvents only for a body with
\* confirm = true; a request with no body, no confirm field (a body that does
\* not bind) or confirm = false is answered 400 and leaves every event and
\* photo row unchanged
C22_DeleteAllNeedsConfirm ==
    /\ [](admin.pc = "delete_all" => admin.confirm = Some(TRUE))
    /\ [][(/\ admin.pc = "idle"
           /\ admin' # admin
           /\ admin'.op = "all"
           /\ admin'.confirm # Some(TRUE))
          => /\ admin'.pc = "idle"
             /\ admin'.status = 400
             /\ events' = events
             /\ photos' = photos]_vars

\* C22 witness: a request with confirm = false was answered 400 with events
\* and photos in the store
C22_Witness ==
    /\ admin.pc = "idle"
    /\ admin.op = "all"
    /\ admin.confirm = Some(FALSE)
    /\ admin.status = 400
    /\ Cardinality(events) = 2
    /\ photos # {}

\* C23: GET /api/v1/events uses a limit of 50 when the limit parameter is not
\* given, never returns more than 100 events whatever the limit, and returns
\* the events ordered by event time from newest to oldest
C23_ListEventsLimit ==
    (pure.op = "listEvents" /\ pure.out.status = 200)
    => LET q == pure.arg
           found == pure.out.events
           matching == Cardinality({i \in 1..q.stored :
                          /\ q.from.given => EventTimeOf(i) >= q.from.value
                          /\ q.to.given => EventTimeOf(i) <= q.to.value})
           skipped == IF q.offset.given /\ q.offset.parsed /\ q.offset.value > 0
                      THEN q.offset.value ELSE 0
           rest == IF matching > skipped THEN matching - skipped ELSE 0
       IN  /\ ~q.limit.given => Len(found) = (IF rest > 50 THEN 50 ELSE rest)
           /\ Len(found) <= 100
           /\ \A i, j \in 1..Len(found) : i < j => found[i] >= found[j]

\* C24: every query the report endpoints make for a CONTRACTOR_ADMIN principal
\* has ContractorID equal to the principal's organization and OnlyAssigned
\* set, whatever the contractor_id parameter; two requests of one contractor
\* that differ in contractor_id only query with the same filters
C24_ContractorSeesOwnOnly ==
    (/\ pure.op = "ReportRequest"
     /\ pure.arg.principal # Nil
     /\ IsContractor(pure.arg.principal[1]))
    => /\ \A i \in 1..2 :
            pure.out[i].status = 200
                => /\ pure.out[i].filters[1].ContractorID = Some(pure.arg.principal[1].OrgID)
                   /\ pure.out[i].filters[1].OnlyAssigned
       /\ (pure.out[1].status = 200 /\ pure.out[2].status = 200)
            => pure.out[1].filters = pure.out[2].filters

\* C24 witness: contractor org1 asked once for org2 and once for no
\* contractor, and both requests queried with the filters of org1
C24_Witness ==
    /\ pure.op = "ReportRequest"
    /\ pure.arg.principal = Some([Role |-> "CONTRACTOR_ADMIN", OrgID |-> "org1"])
    /\ pure.arg.first.contractor_id = [given |-> TRUE, parsed |-> TRUE, value |-> "org2"]
    /\ ~pure.arg.second.contractor_id.given
    /\ pure.out[1].status = 200
    /\ pure.out[2].status = 200
    /\ pure.out[1].filters[1].ContractorID = Some("org1")

\* C25: formatVehicleInfo(brand, model) is the words of the brand followed by
\* the words of the model, a nil or blank one contributing none, separated by
\* single spaces: no white space at either end, no run of white space, no
\* white space other than the space, and the empty string when both are nil
\* or blank
C25_FormatVehicleInfo ==
    pure.op = "formatVehicleInfo"
    => LET text(v) == IF v = Nil THEN <<>> ELSE v[1]
           \* the indices at which a word of s starts, and where that word ends
           starts(s) == {i \in 1..Len(s) : ~IsSpace(s[i]) /\ (i = 1 \/ IsSpace(s[i - 1]))}
           stop(s, i) == CHOOSE j \in i..Len(s) :
                            /\ \A k \in i..j : ~IsSpace(s[k])
                            /\ (j = Len(s) \/ IsSpace(s[j + 1]))
           \* the k-th word of s
           word(s, k) == LET i == CHOOSE i \in starts(s) :
                                     Cardinality({j \in starts(s) : j < i}) = k - 1
                         IN  SubSeq(s, i, stop(s, i))
           words(s) == [k \in 1..Cardinality(starts(s)) |-> word(s, k)]
           all == words(text(pure.arg.brand)) \o words(text(pure.arg.model))
           out == pure.out
       IN  /\ words(out) = all
           /\ \A i \in 1..Len(out) : IsSpace(out[i]) => out[i] = " "
           /\ \A i \in 1..Len(out) :
                IsSpace(out[i]) => i > 1 /\ i < Len(out) /\ ~IsSpace(out[i + 1])
           /\ all = <<>> => out = <<>>

\* C25 witness: a padded brand of two words and a padded model, joined
C25_Witness ==
    /\ pure.op = "formatVehicleInfo"
    /\ pure.arg.brand = Some(<<"a", "\t", "b">>)
    /\ pure.arg.model = Some(<<" ", "b", " ">>)
    /\ pure.out = <<"a", " ", "b", " ", "b">>

\* C26: ExistsRecentEvent reads and writes nothing, and answers true exactly
\* when a stored event has the same normalized plate, the same camera id and
\* an event time between eventTime - window and eventTime + window, both
\* included, earlier or later than eventTime; another camera or another plate
\* never counts.  The call of ProcessIncomingEvent answers ErrDuplicateEvent
\* exactly when ExistsRecentEvent is true.
C26_ExistsRecentEvent ==
    [][\A r \in Req :
         (pc[r] = "dedup" /\ pc'[r] # "dedup")
            => LET same == {e \in events :
                              /\ e.normalized_plate = NormalizePlate(call[r].payload.Plate)
                              /\ e.camera_id = call[r].payload.CameraID}
                   near == {e \in same :
                              /\ e.event_time >= call[r].payload.EventTime - Window
                              /\ e.event_time <= call[r].payload.EventTime + Window}
               IN  /\ (res'[r].kind = "ErrDuplicateEvent") <=> (near # {})
                   /\ near = {} => pc'[r] = "plate_select"
                   /\ events' = events /\ plates' = plates /\ photos' = photos]_vars

\* C26 witness: a sighting exactly 5 minutes before a stored event of the same
\* plate and camera was answered as a duplicate
C26_Witness ==
    \E r \in Req : \E e \in events :
        /\ res[r].kind = "ErrDuplicateEvent"
        /\ e.normalized_plate = NormalizePlate(call[r].payload.Plate)
        /\ e.camera_id = call[r].payload.CameraID
        /\ e.event_time = call[r].payload.EventTime + Window

\* C27: whatever the interleaving of concurrent ProcessIncomingEvent calls, no
\* two stored events have the same normalized plate, the same camera id and
\* event times within 5 minutes of each other
C27_NoNearDuplicatesStored ==
    \A e1, e2 \in events :
        (/\ e1 # e2
         /\ e1.normalized_plate = e2.normalized_plate
         /\ e1.camera_id = e2.camera_id)
        => \/ e1.event_time - e2.event_time > Window
           \/ e2.event_time - e1.event_time > Window

\* C28: a call rejected with ErrDuplicateEvent or ErrVehicleNotWhitelisted has
\* created no Plate row, no event row and no photo row
C28_RejectionLeavesStore ==
    \A r \in Req :
        res[r].kind \in {"ErrDuplicateEvent", "ErrVehicleNotWhitelisted"}
            => /\ ~(\E p \in plates : p.id = r)
               /\ ~(\E e \in events : e.id = r)
               /\ ~(\E ph \in photos : ph.event_id = r)

\* C28 as amended: a rejected call has created no event row and no photo row;
\* rejected as a duplicate it has created no Plate row either, rejected as not
\* whitelisted it leaves the Plate row of its normalized plate in the store,
\* the row it created if there was none
C28_RejectionStoresNoEvent ==
    \A r \in Req :
        res[r].kind \in {"ErrDuplicateEvent", "ErrVehicleNotWhitelisted"}
            => /\ ~(\E e \in events : e.id = r)
               /\ ~(\E ph \in photos : ph.event_id = r)
               /\ res[r].kind = "ErrDuplicateEvent" => ~(\E p \in plates : p.id = r)
               /\ res[r].kind = "ErrVehicleNotWhitelisted"
                    => /\ \E p \in plates : p.normalized = NormalizePlate(call[r].payload.Plate)
                       /\ \A p \in plates :
                            p.id = r => /\ p.normalized = NormalizePlate(call[r].payload.Plate)
                                        /\ p.number = call[r].payload.Plate

\* C28 witness: a sighting of an unregistered plate was rejected and its Plate
\* row is in the store
C28_Witness ==
    \E r \in Req : \E p \in plates :
        /\ pc[r] = "done"
        /\ res[r].kind = "ErrVehicleNotWhitelisted"
        /\ p.id = r
        /\ events = {}

-----------------------------------------------------------------------------
\* C29: every object the multipart handler has uploaded belongs to an event
\* its request persists: a request ProcessIncomingEvent rejects with
\* ErrInvalidInput, ErrDuplicateEvent or ErrVehicleNotWhitelisted has
\* uploaded nothing.
C29_UploadsOnlyForPersistedEvents ==
    \A r \in Req :
        (/\ call[r].endpoint = "multipart"
         /\ pc[r] \in {"respond", "done"}
         /\ res[r].kind \in {"ErrInvalidInput", "ErrDuplicateEvent",
                             "ErrVehicleNotWhitelisted"})
        => \A o \in UploadedObjects : o.event_id # r

\* C30: the display order of every photo row stored for a multipart request
\* is the attachment index of that photo, the one in its object key.
C30_DisplayOrderIsAttachmentIndex ==
    \A ph \in photos :
        call[ph.event_id].endpoint = "multipart"
        => ph.display_order = AttachmentIndex(ph.photo_url)

====
